---- MODULE Spec2Model ----
(***************************************************************************)
(* Model of backend/controllers/pmsfeature.js: the Express handlers        *)
(* registerUser, loginUser, updateUserProfile, logoutUser, processPayment, *)
(* the auth middleware protect, the User collection with its unique        *)
(* indexes and pre-save hook, and the clock read by jsonwebtoken and       *)
(* Date.now().                                                             *)
(*                                                                         *)
(* A request occupies a slot from its arrival to its last response. Each   *)
(* await in a handler is a point where other requests may run, so each     *)
(* handler is cut into one action per stretch of code between awaits.      *)
(*                                                                         *)
(* Taken as given: the unique indexes of UserSchema are built, JWT_SECRET  *)
(* is set and known to the server alone, bcrypt digests do not collide.    *)
(***************************************************************************)
EXTENDS Integers, Sequences, FiniteSets, TLC

VARIABLES
    users,    \* the User collection: users[i] is the document with _id = i
    now,      \* Date.now(), in milliseconds
    issued,   \* every token jwt.sign has returned so far
    req,      \* req[s]: the request in slot s (req, res and handler position)
    nreq,     \* number of requests received so far
    lastPw    \* lastPw[i]: plaintext last stored for user i by a request that succeeded

vars == <<users, now, issued, req, nreq, lastPw>>

----------------------------------------------------------------------------
(* Bounds of the model *)

MaxUsers == 2          \* documents the collection may hold
MaxInFlight == 2       \* request slots (requests handled at the same time)
MaxReqs == 3           \* requests received in one behaviour
MaxBodyFields == 2     \* fields present in one profile-update body
NSalts == 2            \* distinct outcomes of bcrypt.genSalt
LongTick == 1500000    \* a long step of the clock, in ms (25 minutes)
MaxLong == 3           \* long steps of the clock in one behaviour
MaxShort == 2          \* short steps (of PaymentDelay ms) between two long steps

(* Program constants *)

ExpiresIn == 3600      \* jwt.sign expiresIn: "1h", in seconds
PaymentDelay == 1500   \* setTimeout(resolve, 1500), in ms

Slots == 1..MaxInFlight
Salts == 1..NSalts

----------------------------------------------------------------------------
(* Values carried by requests *)

Undefined == "<undefined>"     \* a property absent from req.body or a document

Falsy(v) == v \in {Undefined, ""}

Usernames == {"ann", "bob"}
Emails == {"a@x", "b@x"}
Passwords == {"pw1", "pw2"}

AccountFields == {"username", "email", "password", "firstName", "lastName", "phoneNumber"}
PaymentFields == {"cardNumber", "expiryDate", "cvv", "cardHolderName", "amount"}
BodyFields == AccountFields \cup PaymentFields

EmptyBody == [f \in BodyFields |-> Undefined]

FieldValues(f) ==
    CASE f = "username"       -> Usernames
      [] f = "email"          -> Emails
      [] f = "password"       -> Passwords \cup {""}
      [] f = "firstName"      -> {"Ann"}
      [] f = "lastName"       -> {"Lee"}
      [] f = "phoneNumber"    -> {"555"}
      [] f = "cardNumber"     -> {"4111"}
      [] f = "expiryDate"     -> {"12/30"}
      [] f = "cvv"            -> {"123"}
      [] f = "cardHolderName" -> {"ANN LEE"}
      [] f = "amount"         -> {"25"}

Opt(f) == FieldValues(f) \cup {Undefined}

Present(b) == { f \in BodyFields : b[f] # Undefined }

\* req.body of POST /api/auth/signup
SignupBodies ==
    { [EmptyBody EXCEPT !.username = u, !.email = e, !.password = p] :
        u \in Opt("username"), e \in Opt("email"), p \in Opt("password") }

\* req.body of POST /api/auth/login
LoginBodies ==
    { [EmptyBody EXCEPT !.email = e, !.password = p] :
        e \in Opt("email"), p \in Opt("password") }

\* req.body of PUT /api/auth/profile
ProfileBodies ==
    { b \in { [EmptyBody EXCEPT !.username = u, !.email = e, !.password = p,
                                !.firstName = fn, !.lastName = ln, !.phoneNumber = ph] :
                u \in Opt("username"), e \in Opt("email"), p \in Opt("password"),
                fn \in Opt("firstName"), ln \in Opt("lastName"), ph \in Opt("phoneNumber") } :
        Cardinality(Present(b)) <= MaxBodyFields }

\* req.body of POST /api/payment
PaymentBodies ==
    { [EmptyBody EXCEPT !.cardNumber = c, !.expiryDate = x, !.cvv = v,
                        !.cardHolderName = h, !.amount = a] :
        c \in Opt("cardNumber"), x \in Opt("expiryDate"), v \in Opt("cvv"),
        h \in Opt("cardHolderName"), a \in Opt("amount") }

----------------------------------------------------------------------------
(* bcryptjs *)

\* A value of the password path: the plaintext assigned by a handler, or the
\* string bcrypt.hash returned for a plaintext under a salt.
Plain(s) == [kind |-> "plain", salt |-> 0, text |-> s]

\* bcrypt.hash(s, salt): the salt followed by a digest of (salt, s). The digest is
\* taken to be collision-free: distinct (salt, s) give distinct strings.
BcryptHash(s, salt) ==
    [kind |-> "bcrypt", salt |-> salt,
     text |-> "$2a$10$" \o ToString(salt) \o "$" \o s]

\* bcrypt.compare(s, hash): rejects when s is not a string, otherwise hashes s
\* under the salt of hash and compares the two strings.
BcryptCompare(s, hash) ==
    IF s = Undefined THEN "throw"
    ELSE IF hash.kind = "bcrypt" /\ BcryptHash(s, hash.salt) = hash THEN "true"
    ELSE "false"

----------------------------------------------------------------------------
(* jsonwebtoken *)

Seconds(ms) == ms \div 1000

\* What split(" ")[1] of an Authorization header can be.
TokUndefined == [kind |-> "undefined", id |-> 0, iat |-> 0, exp |-> 0, sig |-> ""]
TokEmpty     == [kind |-> "empty",     id |-> 0, iat |-> 0, exp |-> 0, sig |-> ""]
TokGarbage   == [kind |-> "garbage",   id |-> 0, iat |-> 0, exp |-> 0, sig |-> ""]

\* !token in protect
FalsyToken(t) == t.kind \in {"undefined", "empty"}

\* A token with a payload of the attacker's choice, signed without JWT_SECRET.
Forged(id) == [kind |-> "jwt", id |-> id, iat |-> 0,
               exp |-> Seconds((MaxLong + 1) * LongTick) + ExpiresIn, sig |-> "forged"]

\* Mutant of GenerateToken: expiresIn is one minute.
GenerateTokenOneMinute(id, t) ==
    [kind |-> "jwt", id |-> id, iat |-> Seconds(t),
     exp |-> Seconds(t) + 60, sig |-> "JWT_SECRET"]

\* jwt.sign({ id }, JWT_SECRET, { expiresIn: "1h" }) at clock t (ms)
GenerateToken(id, t) ==
    [kind |-> "jwt", id |-> id, iat |-> Seconds(t),
     exp |-> Seconds(t) + ExpiresIn, sig |-> "JWT_SECRET"]

\* jwt.verify(token, JWT_SECRET) at clockTimestamp t = floor(Date.now() / 1000): the
\* decoded payload or the error thrown.
JwtVerify(tok, t) ==
    IF FalsyToken(tok) THEN [ok |-> FALSE, id |-> 0, err |-> "jwt must be provided"]
    ELSE IF tok.kind # "jwt" THEN [ok |-> FALSE, id |-> 0, err |-> "jwt malformed"]
    ELSE IF tok.sig # "JWT_SECRET" THEN [ok |-> FALSE, id |-> 0, err |-> "invalid signature"]
    ELSE IF t >= tok.exp THEN [ok |-> FALSE, id |-> 0, err |-> "jwt expired"]
    ELSE [ok |-> TRUE, id |-> tok.id, err |-> ""]

----------------------------------------------------------------------------
(* HTTP *)

\* req.headers.authorization: present or not, what it starts with, and split(" ")[1].
NoHeader == [present |-> FALSE, prefix |-> "", arg |-> TokUndefined]
Header(prefix, arg) == [present |-> TRUE, prefix |-> prefix, arg |-> arg]

\* The Authorization headers a client may send.
Headers ==
    {NoHeader, Header("Basic", TokGarbage), Header("Bearer", TokUndefined),
     Header("Bearer", TokEmpty), Header("Bearer", TokGarbage)}
    \cup { Header("Bearer", t) : t \in issued }
    \cup { Header("Bearer", Forged(i)) : i \in 1..Len(users) }

\* The Authorization headers of clients that send a token they were given.
IssuedHeaders == { Header("Bearer", t) : t \in issued }

\* One call of res.status(status).json(...): the status and the JSON body.
Resp(status, message) ==
    [status |-> status, message |-> message, id |-> 0, username |-> Undefined,
     email |-> Undefined, firstName |-> Undefined, lastName |-> Undefined,
     phoneNumber |-> Undefined, token |-> TokUndefined, transactionId |-> Undefined,
     amount |-> Undefined]

----------------------------------------------------------------------------
(* The User collection (UserSchema and the mongoose calls the handlers make) *)

\* null, as returned by findOne and findById
NoDoc ==
    [id |-> 0, username |-> Undefined, email |-> Undefined, password |-> Plain(Undefined),
     firstName |-> Undefined, lastName |-> Undefined, phoneNumber |-> Undefined]

Ids(db) == 1..Len(db)

\* User.findOne({ email }): an undefined email is sent as null and matches no document,
\* since every stored document has an email.
FindOneByEmail(db, email) ==
    IF \E i \in Ids(db) : db[i].email = email
    THEN db[CHOOSE i \in Ids(db) : db[i].email = email /\ \A j \in Ids(db) : db[j].email = email => i <= j]
    ELSE NoDoc

\* User.findById(id)
FindById(db, id) == IF id \in Ids(db) THEN db[id] ELSE NoDoc

\* required: true on username, email and password: a String path is missing when it
\* is undefined or empty.
ValidationFails(doc) ==
    Falsy(doc.username) \/ Falsy(doc.email) \/ Falsy(doc.password.text)

\* Mutant of DuplicateKey: the unique index on username is missing.
DuplicateKeyEmailOnly(db, doc) ==
    \E i \in Ids(db) : i # doc.id /\ db[i].email = doc.email

\* unique: true on username and email: writing doc would give it the username or
\* the email of another document (error E11000).
DuplicateKey(db, doc) ==
    \E i \in Ids(db) : i # doc.id /\ (db[i].username = doc.username \/ db[i].email = doc.email)

\* Mutant of IsModifiedPassword: the hook hashes the password on every save.
IsModifiedAlways(doc, prior) == TRUE

\* this.isModified("password") for a document loaded as prior (NoDoc: a new document)
IsModifiedPassword(doc, prior) == doc.password # prior.password

\* UserSchema.pre("save"): hash the password when it was modified.
PreSave(doc, prior, salt) ==
    IF IsModifiedPassword(doc, prior)
    THEN [doc EXCEPT !.password = BcryptHash(doc.password.text, salt)]
    ELSE doc

\* The paths of doc that differ from the document as loaded: what save() writes.
ModifiedPaths(doc, prior) ==
    { f \in AccountFields : doc[f] # prior[f] }

\* updateOne({ _id }, { $set: modified paths }) on the stored document.
ApplySet(stored, doc, paths) ==
    [f \in DOMAIN stored |-> IF f \in paths THEN doc[f] ELSE stored[f]]

\* generateToken(id) as called by a handler at the present clock
NewToken(id) == GenerateToken(id, now)

\* The profile fields of a document, as the handlers put them in a response.
WithAccount(resp, doc) ==
    [resp EXCEPT !.id = doc.id, !.username = doc.username, !.email = doc.email]

WithProfile(resp, doc) ==
    [WithAccount(resp, doc) EXCEPT !.firstName = doc.firstName, !.lastName = doc.lastName,
                                   !.phoneNumber = doc.phoneNumber]

----------------------------------------------------------------------------
(* Requests *)

\* A request slot. route, auth, body: the request as received. pc: the function the
\* request is in, or the await it is suspended at. user: req.user. doc: the document
\* the handler loaded. res: the calls of res.json, in order. nexts: calls of next().
\* at: the clock (s) when protect ran. due: when the payment timer may fire.
\* seq: the request's number in order of arrival. base: documents stored when it arrived.
IdleReq ==
    [route |-> "none", pc |-> "idle", auth |-> NoHeader, body |-> EmptyBody,
     user |-> 0, doc |-> NoDoc, res |-> <<>>, nexts |-> 0, at |-> 0, due |-> 0,
     seq |-> 0, base |-> 0]

Routes == {"signup", "login", "profile", "logout", "payment"}

\* app.post/put/get: the first function a route runs.
FirstStep(route) ==
    CASE route = "signup"  -> "registerUser"
      [] route = "login"   -> "loginUser"
      [] route = "profile" -> "protect"
      [] route = "logout"  -> "logoutUser"
      [] route = "payment" -> "protect"

\* The handler a protected route runs when protect calls next().
AfterProtect(route) ==
    IF route = "profile" THEN "updateUserProfile" ELSE "processPayment"

InFlight(r) == r.pc \notin {"idle", "done"}

Free(s) == ~InFlight(req[s])

\* Signups admitted and not yet answered.
PendingSignups == Cardinality({ s \in Slots : InFlight(req[s]) /\ req[s].route = "signup" })

Send(r, resp) == [r EXCEPT !.res = Append(@, resp)]
Finish(r, resp) == [Send(r, resp) EXCEPT !.pc = "done"]

Init ==
    /\ users = <<>>
    /\ now = 0
    /\ issued = {}
    /\ req = [s \in Slots |-> IdleReq]
    /\ nreq = 0
    /\ lastPw = <<>>

\* A request arrives and is routed. load: the requests clients send (the routes,
\* and for each route the bodies; whether the Authorization header is any header or
\* always a token the server issued). concurrent: whether a request may arrive while
\* another is being handled.
Receive(s, load, concurrent) ==
    /\ Free(s)
    /\ concurrent \/ \A o \in Slots : Free(o)
    /\ nreq < MaxReqs
    /\ \E route \in load.routes :
         /\ route = "signup" => Len(users) + PendingSignups < MaxUsers
         /\ \E h \in IF route \notin {"profile", "payment"} THEN {NoHeader}
                     ELSE IF load.anyHeader THEN Headers ELSE IssuedHeaders,
               b \in load[route] :
              req' = [req EXCEPT ![s] =
                        [IdleReq EXCEPT !.route = route, !.pc = FirstStep(route),
                                        !.auth = h, !.body = b, !.seq = nreq + 1,
                                        !.base = Len(users)]]
    /\ nreq' = nreq + 1
    /\ UNCHANGED <<users, now, issued, lastPw>>

----------------------------------------------------------------------------
(* protect *)

\* Mutant of ProtectRun: the token is decoded with jwt.decode, which checks neither
\* the signature nor the expiry.
ProtectRunDecode(r, t) ==
    LET h == r.auth
        bearer == h.present /\ h.prefix = "Bearer"
        token == IF bearer THEN h.arg ELSE TokUndefined
        tried == IF ~bearer THEN r
                 ELSE IF token.kind = "jwt"
                      THEN [r EXCEPT !.user = token.id, !.nexts = @ + 1]
                      ELSE Send(r, Resp(401, "Not authorized, token failed"))
        out == IF FalsyToken(token)
               THEN Send(tried, Resp(401, "Not authorized, no token"))
               ELSE tried
    IN  [out EXCEPT !.at = Seconds(t),
                    !.pc = IF out.nexts > 0 THEN AfterProtect(r.route) ELSE "done"]

\* protect(req, res, next) run at clock t (ms). A second res.json on the same
\* response is recorded like the first: protect made both calls.
ProtectRun(r, t) ==
    LET h == r.auth
        bearer == h.present /\ h.prefix = "Bearer"
        token == IF bearer THEN h.arg ELSE TokUndefined
        decoded == JwtVerify(token, Seconds(t))
        tried == IF ~bearer THEN r
                 ELSE IF decoded.ok
                      THEN [r EXCEPT !.user = decoded.id, !.nexts = @ + 1]
                      ELSE Send(r, Resp(401, "Not authorized, token failed"))
        out == IF FalsyToken(token)
               THEN Send(tried, Resp(401, "Not authorized, no token"))
               ELSE tried
    IN  [out EXCEPT !.at = Seconds(t),
                    !.pc = IF out.nexts > 0 THEN AfterProtect(r.route) ELSE "done"]

Protect(s) ==
    /\ req[s].pc = "protect"
    /\ req' = [req EXCEPT ![s] = ProtectRun(req[s], now)]
    /\ UNCHANGED <<users, now, issued, nreq, lastPw>>

----------------------------------------------------------------------------
(* registerUser *)

\* Mutant of UserExists: the lookup is made on the username path.
UserExistsByUsername(db, email) == \E i \in Ids(db) : db[i].username = email

\* userExists: the result of User.findOne({ email }) is truthy
UserExists(db, email) == FindOneByEmail(db, email) # NoDoc

\* registerUser up to the answer of User.findOne
RegisterFind(s) ==
    /\ req[s].pc = "registerUser"
    /\ req' = [req EXCEPT ![s] =
                 IF UserExists(users, req[s].body.email)
                 THEN Finish(req[s], Resp(400, "User already exists"))
                 ELSE [req[s] EXCEPT !.pc = "create"]]
    /\ UNCHANGED <<users, now, issued, nreq, lastPw>>

\* The document User.create builds from { username, email, password }
NewUser(db, b) ==
    [NoDoc EXCEPT !.id = Len(db) + 1, !.username = b.username, !.email = b.email,
                  !.password = Plain(b.password)]

\* registerUser from User.create to the response
RegisterCreate(s) ==
    /\ req[s].pc = "create"
    /\ \E salt \in Salts :
         LET built == NewUser(users, req[s].body)
             doc == PreSave(built, NoDoc, salt)
             token == NewToken(doc.id)
         IN  IF ValidationFails(built)
             THEN /\ req' = [req EXCEPT ![s] = Finish(@, Resp(500, "User validation failed"))]
                  /\ UNCHANGED <<users, issued, lastPw>>
             ELSE IF DuplicateKey(users, doc)
             THEN /\ req' = [req EXCEPT ![s] = Finish(@, Resp(500, "E11000 duplicate key error"))]
                  /\ UNCHANGED <<users, issued, lastPw>>
             ELSE /\ users' = Append(users, doc)
                  /\ lastPw' = Append(lastPw, req[s].body.password)
                  /\ issued' = issued \cup {token}
                  /\ req' = [req EXCEPT ![s] =
                               Finish(@, [WithAccount(Resp(201, Undefined), doc)
                                            EXCEPT !.token = token])]
    /\ UNCHANGED <<now, nreq>>

----------------------------------------------------------------------------
(* loginUser *)

\* loginUser up to the answer of User.findOne: a null user skips bcrypt.compare
LoginFind(s) ==
    /\ req[s].pc = "loginUser"
    /\ LET user == FindOneByEmail(users, req[s].body.email)
       IN  req' = [req EXCEPT ![s] =
                     IF user = NoDoc
                     THEN Finish(@, Resp(401, "Invalid email or password"))
                     ELSE [@ EXCEPT !.doc = user, !.pc = "compare"]]
    /\ UNCHANGED <<users, now, issued, nreq, lastPw>>

\* loginUser from bcrypt.compare to the response
LoginCompare(s) ==
    /\ req[s].pc = "compare"
    /\ LET user == req[s].doc
           matches == BcryptCompare(req[s].body.password, user.password)
           token == NewToken(user.id)
       IN  CASE matches = "throw" ->
                  /\ req' = [req EXCEPT ![s] =
                               Finish(@, Resp(500, "Illegal arguments: undefined, string"))]
                  /\ UNCHANGED issued
             [] matches = "true" ->
                  /\ req' = [req EXCEPT ![s] =
                               Finish(@, [WithAccount(Resp(200, Undefined), user)
                                            EXCEPT !.token = token])]
                  /\ issued' = issued \cup {token}
             [] matches = "false" ->
                  /\ req' = [req EXCEPT ![s] = Finish(@, Resp(401, "Invalid email or password"))]
                  /\ UNCHANGED issued
    /\ UNCHANGED <<users, now, nreq, lastPw>>

----------------------------------------------------------------------------
(* updateUserProfile *)

\* updateUserProfile up to the answer of User.findById(req.user)
UpdateFind(s) ==
    /\ req[s].pc = "updateUserProfile"
    /\ LET user == FindById(users, req[s].user)
       IN  req' = [req EXCEPT ![s] =
                     IF user = NoDoc
                     THEN Finish(@, Resp(404, "User not found"))
                     ELSE [@ EXCEPT !.doc = user, !.pc = "save"]]
    /\ UNCHANGED <<users, now, issued, nreq, lastPw>>

\* Mutant of OrPrior: the field is assigned whether or not the body carries it.
OrGiven(given, prior) == given

\* req.body.x || user.x
OrPrior(given, prior) == IF Falsy(given) THEN prior ELSE given

\* The assignments updateUserProfile makes to the loaded document
Assigned(user, b) ==
    [user EXCEPT !.username = OrPrior(b.username, @),
                 !.email = OrPrior(b.email, @),
                 !.firstName = OrPrior(b.firstName, @),
                 !.lastName = OrPrior(b.lastName, @),
                 !.phoneNumber = OrPrior(b.phoneNumber, @),
                 !.password = IF ~Falsy(b.password) THEN Plain(b.password) ELSE @]

\* updateUserProfile from user.save() to the response
UpdateSave(s) ==
    /\ req[s].pc = "save"
    /\ \E salt \in Salts :
         LET prior == req[s].doc
             updatedUser == PreSave(Assigned(prior, req[s].body), prior, salt)
             paths == ModifiedPaths(updatedUser, prior)
             stored == ApplySet(users[prior.id], updatedUser, paths)
             token == NewToken(updatedUser.id)
         IN  IF paths # {} /\ DuplicateKey(users, stored)
             THEN /\ req' = [req EXCEPT ![s] = Finish(@, Resp(500, "E11000 duplicate key error"))]
                  /\ UNCHANGED <<users, issued, lastPw>>
             ELSE /\ users' = [users EXCEPT ![prior.id] = stored]
                  /\ lastPw' = [lastPw EXCEPT ![prior.id] =
                                  IF Falsy(req[s].body.password) THEN @ ELSE req[s].body.password]
                  /\ issued' = issued \cup {token}
                  /\ req' = [req EXCEPT ![s] =
                               Finish(@, [WithProfile(Resp(200, Undefined), updatedUser)
                                            EXCEPT !.token = token])]
    /\ UNCHANGED <<now, nreq>>

----------------------------------------------------------------------------
(* logoutUser *)

LogoutUser(s) ==
    /\ req[s].pc = "logoutUser"
    /\ req' = [req EXCEPT ![s] =
                 Finish(@, Resp(200, "User logged out (token removed client-side)"))]
    /\ UNCHANGED <<users, now, issued, nreq, lastPw>>

----------------------------------------------------------------------------
(* processPayment *)

\* !cardNumber || !expiryDate || !cvv || !cardHolderName || !amount
MissingPaymentDetails(b) == \E f \in PaymentFields : Falsy(b[f])

\* `TXN_${Date.now()}` at clock t (ms)
TransactionId(t) == "TXN_" \o ToString(t)

\* processPayment up to setTimeout(resolve, 1500)
ProcessPayment(s) ==
    /\ req[s].pc = "processPayment"
    /\ req' = [req EXCEPT ![s] =
                 IF MissingPaymentDetails(@.body)
                 THEN Finish(@, Resp(400, "Missing payment details."))
                 ELSE [@ EXCEPT !.pc = "timer", !.due = now + PaymentDelay]]
    /\ UNCHANGED <<users, now, issued, nreq, lastPw>>

\* processPayment after the timer: the timer fires no earlier than its delay
PaymentTimer(s) ==
    /\ req[s].pc = "timer"
    /\ now >= req[s].due
    /\ req' = [req EXCEPT ![s] =
                 Finish(@, [Resp(200, "Payment processed successfully!")
                              EXCEPT !.transactionId = TransactionId(now),
                                     !.amount = req[s].body.amount])]
    /\ UNCHANGED <<users, now, issued, nreq, lastPw>>

----------------------------------------------------------------------------
(* The clock *)

Horizon == MaxLong * LongTick + MaxShort * PaymentDelay

Advance(d) ==
    /\ now + d <= Horizon
    /\ d = PaymentDelay => (now % LongTick) + d <= MaxShort * PaymentDelay
    /\ now' = now + d
    /\ UNCHANGED <<users, issued, req, nreq, lastPw>>

----------------------------------------------------------------------------
(* Workloads: the requests clients send in each specification *)

Complete(u, e, p) == [EmptyBody EXCEPT !.username = u, !.email = e, !.password = p]

CompletePayment ==
    [EmptyBody EXCEPT !.cardNumber = "4111", !.expiryDate = "12/30", !.cvv = "123",
                      !.cardHolderName = "ANN LEE", !.amount = "25"]

\* Any Authorization header on the protected routes; two complete signups, logins
\* with the password they set, a profile update of a name and the password, complete
\* payments, logouts.
GateLoad ==
    [routes |-> Routes, anyHeader |-> TRUE,
     signup |-> { Complete("ann", "a@x", "pw1"), Complete("bob", "b@x", "pw1") },
     login |-> { [EmptyBody EXCEPT !.email = e, !.password = "pw1"] : e \in Emails },
     profile |-> { [EmptyBody EXCEPT !.firstName = "Ann", !.password = "pw2"] },
     logout |-> {EmptyBody},
     payment |-> { CompletePayment }]

\* Every signup and login body; profile updates of the email and the password by
\* clients holding a token.
SeqLoad ==
    [routes |-> {"signup", "login", "profile"}, anyHeader |-> FALSE,
     signup |-> SignupBodies,
     login |-> LoginBodies,
     profile |-> { b \in ProfileBodies : Present(b) \subseteq {"email", "password"} }]

\* Complete signups and every profile body, by clients holding a token.
ConcLoad ==
    [routes |-> {"signup", "profile"}, anyHeader |-> FALSE,
     signup |-> { Complete(u, e, "pw1") : u \in Usernames, e \in Emails },
     profile |-> ProfileBodies]

\* One signup body and every payment body, by clients holding a token.
PayLoad ==
    [routes |-> {"signup", "payment"}, anyHeader |-> FALSE,
     signup |-> { Complete("ann", "a@x", "pw1") },
     payment |-> PaymentBodies]

----------------------------------------------------------------------------
(* Specifications *)

\* Signups and profile updates handled concurrently.
Next ==
    \/ \E s \in Slots : Receive(s, ConcLoad, TRUE)
    \/ \E s \in Slots : Protect(s)
    \/ \E s \in Slots : RegisterFind(s)
    \/ \E s \in Slots : RegisterCreate(s)
    \/ \E s \in Slots : UpdateFind(s)
    \/ \E s \in Slots : UpdateSave(s)

Spec == Init /\ [][Next]_vars

\* Signups, logins and profile updates handled one after the other.
NextSeq ==
    \/ \E s \in Slots : Receive(s, SeqLoad, FALSE)
    \/ \E s \in Slots : Protect(s)
    \/ \E s \in Slots : RegisterFind(s)
    \/ \E s \in Slots : RegisterCreate(s)
    \/ \E s \in Slots : LoginFind(s)
    \/ \E s \in Slots : LoginCompare(s)
    \/ \E s \in Slots : UpdateFind(s)
    \/ \E s \in Slots : UpdateSave(s)

SpecSeq == Init /\ [][NextSeq]_vars

\* Every route behind any Authorization header, handled concurrently while the
\* clock runs past the lifetime of tokens.
NextGate ==
    \/ \E s \in Slots : Receive(s, GateLoad, TRUE)
    \/ \E s \in Slots : Protect(s)
    \/ \E s \in Slots : RegisterFind(s)
    \/ \E s \in Slots : RegisterCreate(s)
    \/ \E s \in Slots : LoginFind(s)
    \/ \E s \in Slots : LoginCompare(s)
    \/ \E s \in Slots : UpdateFind(s)
    \/ \E s \in Slots : UpdateSave(s)
    \/ \E s \in Slots : LogoutUser(s)
    \/ \E s \in Slots : ProcessPayment(s)
    \/ \E s \in Slots : PaymentTimer(s)
    \/ Advance(LongTick)

SpecGate == Init /\ [][NextGate]_vars

\* Payments handled concurrently while the clock runs in steps of the payment delay.
NextPay ==
    \/ \E s \in Slots : Receive(s, PayLoad, TRUE)
    \/ \E s \in Slots : Protect(s)
    \/ \E s \in Slots : RegisterFind(s)
    \/ \E s \in Slots : RegisterCreate(s)
    \/ \E s \in Slots : ProcessPayment(s)
    \/ \E s \in Slots : PaymentTimer(s)
    \/ Advance(PaymentDelay)

SpecPay == Init /\ [][NextPay]_vars

----------------------------------------------------------------------------
(* The auth gate *)

Protected(r) == r.route \in {"profile", "payment"}

\* protect has run for the request.
PastGate(r) == Protected(r) /\ r.pc \notin {"idle", "protect"}

Bearer(h) == h.present /\ h.prefix = "Bearer"

NoTokenResp == Resp(401, "Not authorized, no token")
TokenFailedResp == Resp(401, "Not authorized, token failed")

\* C1: every request that reaches protect gets exactly one terminal outcome: either
\* exactly one 401 response and no call of next(), or one call of next() and no
\* response from the gate.
C1_ExactlyOneOutcome ==
    \A s \in Slots :
        PastGate(req[s]) =>
            \/ /\ req[s].nexts = 0
               /\ Len(req[s].res) = 1
               /\ req[s].res[1].status = 401
            \/ /\ req[s].nexts = 1
               /\ \A i \in 1..Len(req[s].res) :
                     req[s].res[i] \notin {NoTokenResp, TokenFailedResp}

\* C2: a header that is missing or does not start with "Bearer" is answered 401
\* "no token"; a header with the "Bearer" prefix whose token does not verify is
\* answered 401 "token failed" and nothing else; in both cases the handler is not run.
C2_FailureClasses ==
    \A s \in Slots :
        PastGate(req[s]) =>
            /\ ~Bearer(req[s].auth) =>
                  req[s].res = <<NoTokenResp>> /\ req[s].nexts = 0 /\ req[s].pc = "done"
            /\ Bearer(req[s].auth) /\ ~JwtVerify(req[s].auth.arg, req[s].at).ok =>
                  req[s].res = <<TokenFailedResp>> /\ req[s].nexts = 0 /\ req[s].pc = "done"

----------------------------------------------------------------------------
(* Registration *)

Done(r) == r.pc = "done"

\* The request received last has been answered: the collection is as it left it.
Latest(r) == Done(r) /\ r.seq = nreq

CarriesAll(b) == ~Falsy(b.username) /\ ~Falsy(b.email) /\ ~Falsy(b.password)

\* Two signups answered one after the other, the second being the last request.
Consecutive(r1, r2) ==
    /\ r1.route = "signup" /\ r2.route = "signup"
    /\ Done(r1) /\ Latest(r2)
    /\ r2.seq = r1.seq + 1
    /\ CarriesAll(r1.body) /\ CarriesAll(r2.body)

\* The signup was answered 201 with a token that verifies to the id of the user it
\* created, stored under the email and username of the request.
Registered(r) ==
    /\ Len(r.res) = 1
    /\ r.res[1].status = 201
    /\ r.res[1].id = r.base + 1
    /\ JwtVerify(r.res[1].token, Seconds(now)).ok
    /\ JwtVerify(r.res[1].token, Seconds(now)).id = r.base + 1
    /\ r.base + 1 \in Ids(users)
    /\ users[r.base + 1].email = r.body.email
    /\ users[r.base + 1].username = r.body.username

\* The signup was answered 400 "User already exists" and stored nothing.
Conflict(r) ==
    /\ r.res = <<Resp(400, "User already exists")>>
    /\ Len(users) = r.base

\* Before the first of two signups no stored user held an email or username of either.
Fresh(r1, r2) ==
    \A i \in 1..r1.base :
        /\ users[i].email \notin {r1.body.email, r2.body.email}
        /\ users[i].username \notin {r1.body.username, r2.body.username}

\* C3 as stated: of two signups handled one after the other, the second fails with
\* Conflict and creates no user when they carry the same email, and both succeed with
\* a token for the new user when they carry distinct emails, whatever the usernames.
C3_Original ==
    \A s1, s2 \in Slots :
        Consecutive(req[s1], req[s2]) =>
            IF req[s1].body.email = req[s2].body.email
            THEN Conflict(req[s2])
            ELSE Registered(req[s1]) /\ Registered(req[s2])

\* C3 amended: the second fails with Conflict when it carries the email of the first
\* and the first succeeded or was itself refused as a duplicate; both succeed when
\* they carry distinct emails and distinct usernames that no stored user holds.
C3_Amended ==
    \A s1, s2 \in Slots :
        Consecutive(req[s1], req[s2]) =>
            /\ /\ req[s1].body.email = req[s2].body.email
               /\ Registered(req[s1]) \/ Conflict(req[s1])
               => Conflict(req[s2])
            /\ /\ req[s1].body.email # req[s2].body.email
               /\ req[s1].body.username # req[s2].body.username
               /\ Fresh(req[s1], req[s2])
               => Registered(req[s1]) /\ Registered(req[s2])

\* Two signups with distinct emails and usernames were answered 201 one after the other.
C3_Witness ==
    \E s1, s2 \in Slots :
        /\ Consecutive(req[s1], req[s2])
        /\ req[s1].body.email # req[s2].body.email
        /\ Registered(req[s1]) /\ Registered(req[s2])

----------------------------------------------------------------------------
(* Uniqueness *)

\* C4: in every reachable state of the collection, whatever the interleaving of
\* signups and profile updates, no two stored users share an email or a username.
C4_UniqueKeys ==
    \A i, j \in Ids(users) :
        i # j => users[i].email # users[j].email /\ users[i].username # users[j].username

DuplicateKeyResp == Resp(500, "E11000 duplicate key error")

\* A signup found no user under its email, and was refused by the unique index
\* because a concurrent signup had stored that email first.
C4_Witness ==
    \E s \in Slots :
        /\ req[s].route = "signup" /\ Done(req[s])
        /\ req[s].res = <<DuplicateKeyResp>>
        /\ \E i \in Ids(users) : users[i].email = req[s].body.email

----------------------------------------------------------------------------
(* Login *)

InvalidLoginResp == Resp(401, "Invalid email or password")

\* C5: a login whose email belongs to no user and a login whose password does not
\* match are both answered 401 "Invalid email or password", with no token.
C5_SameRefusal ==
    \A s \in Slots :
        /\ req[s].route = "login" /\ Done(req[s])
        /\ \/ req[s].doc = NoDoc
           \/ BcryptCompare(req[s].body.password, req[s].doc.password) # "true"
        => req[s].res = <<InvalidLoginResp>>

LoginInputs == Passwords \cup {"", Undefined}

\* C6: a password logs a user in exactly when it is the plaintext last set for the
\* user, at registration or by a successful profile update that supplied one; a
\* profile update that supplies none leaves the stored hash as it was.
C6_LastPasswordLogsIn ==
    /\ [](\A i \in Ids(users) : \A p \in LoginInputs :
            BcryptCompare(p, users[i].password) = "true" <=> p = lastPw[i])
    /\ [](\A s \in Slots :
            /\ req[s].route = "login" /\ Latest(req[s])
            /\ req[s].doc # NoDoc
            => (req[s].res[1].status = 200 <=> req[s].body.password = lastPw[req[s].doc.id]))
    /\ [][\A s \in Slots :
            /\ req[s].pc = "save" /\ Done(req'[s])
            /\ Falsy(req[s].body.password)
            => users'[req[s].doc.id].password = users[req[s].doc.id].password]_vars

\* A profile update set a new password, and the next login used it and succeeded.
C6_Witness ==
    \E s1, s2 \in Slots :
        /\ req[s1].route = "profile" /\ Done(req[s1])
        /\ req[s1].res[1].status = 200
        /\ ~Falsy(req[s1].body.password)
        /\ req[s2].route = "login" /\ Latest(req[s2])
        /\ req[s2].seq = req[s1].seq + 1
        /\ req[s2].doc.id = req[s1].user
        /\ req[s2].body.password = req[s1].body.password
        /\ req[s2].res[1].status = 200

----------------------------------------------------------------------------
(* Profile update *)

\* The user a request's token names.
TokenUser(r) == r.auth.arg.id

\* C7: a profile update that succeeds replaces a field only if the body carries it:
\* every field the body omits keeps its stored value, and no other user changes.
C7_OnlyPresentFieldsChange ==
    [][\A s \in Slots :
         /\ req[s].pc = "save" /\ Done(req'[s])
         /\ req'[s].res[1].status = 200
         => /\ Len(users') = Len(users)
            /\ \A f \in AccountFields :
                 req[s].body[f] = Undefined =>
                     users'[TokenUser(req[s])][f] = users[TokenUser(req[s])][f]
            /\ \A i \in Ids(users) : i # TokenUser(req[s]) => users'[i] = users[i]]_vars

\* A profile update that carried a first name and no username succeeded: the first
\* name is stored and the username is still the one registered.
C7_Witness ==
    \E s \in Slots :
        /\ req[s].route = "profile" /\ Done(req[s])
        /\ req[s].res[1].status = 200
        /\ req[s].body.firstName = "Ann"
        /\ req[s].body.username = Undefined
        /\ users[req[s].user].firstName = "Ann"
        /\ users[req[s].user].username \in Usernames

----------------------------------------------------------------------------
(* Token lifetime *)

\* C8: a token issued at second t verifies to the user it was issued for at every
\* second before t + 1 hour and is refused as expired, 401 at the gate, at every
\* second after; login, logout and profile updates change none of this.
C8_TokenLifetime ==
    /\ \A tok \in issued :
         /\ Seconds(now) < tok.iat + ExpiresIn =>
               JwtVerify(tok, Seconds(now)) = [ok |-> TRUE, id |-> tok.id, err |-> ""]
         /\ Seconds(now) > tok.iat + ExpiresIn =>
               JwtVerify(tok, Seconds(now)) = [ok |-> FALSE, id |-> 0, err |-> "jwt expired"]
    /\ \A s \in Slots :
         PastGate(req[s]) /\ Bearer(req[s].auth) /\ req[s].auth.arg \in issued =>
            /\ req[s].at < req[s].auth.arg.iat + ExpiresIn =>
                  req[s].nexts = 1 /\ req[s].user = req[s].auth.arg.id
            /\ req[s].at > req[s].auth.arg.iat + ExpiresIn =>
                  req[s].nexts = 0 /\ req[s].res = <<TokenFailedResp>>

\* The gate refused a token more than an hour old, and passed one of the same user
\* while it was less than an hour old.
C8_Witness ==
    \E s1, s2 \in Slots :
        /\ PastGate(req[s1]) /\ req[s1].auth.arg \in issued
        /\ req[s1].at > req[s1].auth.arg.iat + ExpiresIn
        /\ req[s1].res = <<TokenFailedResp>>
        /\ PastGate(req[s2]) /\ req[s2].auth.arg \in issued
        /\ req[s2].auth.arg.id = req[s1].auth.arg.id
        /\ req[s2].at < req[s2].auth.arg.iat + ExpiresIn
        /\ req[s2].nexts = 1

----------------------------------------------------------------------------
(* Payment *)

PaidResp(r) == Done(r) /\ r.route = "payment" /\ r.res[Len(r.res)].status = 200

\* C9: any two payments that complete return different transaction ids.
C9_UniqueTransactionIds ==
    \A s1, s2 \in Slots :
        s1 # s2 /\ PaidResp(req[s1]) /\ PaidResp(req[s2]) =>
            req[s1].res[Len(req[s1].res)].transactionId
                # req[s2].res[Len(req[s2].res)].transactionId

----------------------------------------------------------------------------
(* Authorization *)

\* The request went through the gate carrying a token the server issued, not yet
\* expired when the gate read it.
Authorized(r) ==
    /\ Bearer(r.auth)
    /\ r.auth.arg \in issued
    /\ r.at < r.auth.arg.exp

\* C10: a stored user is modified only by a profile update that carried an unexpired
\* token issued for that user, and a payment succeeds only for a request that passed
\* the gate with such a token.
C10_OnlyTokenHolderModifies ==
    [][/\ \A i \in Ids(users) :
            users'[i] # users[i] =>
                \E s \in Slots :
                    /\ req[s].route = "profile"
                    /\ req[s].pc = "save" /\ Done(req'[s])
                    /\ Authorized(req[s])
                    /\ TokenUser(req[s]) = i
       /\ \A s \in Slots :
            ~PaidResp(req[s]) /\ PaidResp(req'[s]) =>
                Authorized(req[s]) /\ req[s].nexts = 1]_vars

\* A profile update under an issued token changed its user while a request under a
\* forged token for the same user was refused at the gate.
C10_Witness ==
    \E s1, s2 \in Slots :
        /\ req[s1].route = "profile" /\ Done(req[s1])
        /\ Authorized(req[s1])
        /\ req[s1].res[1].status = 200
        /\ users[TokenUser(req[s1])].firstName = "Ann"
        /\ PastGate(req[s2])
        /\ req[s2].auth = Header("Bearer", Forged(TokenUser(req[s1])))
        /\ req[s2].nexts = 0

====
